---- MODULE Spec2Model ----
(***************************************************************************)
(* Model of the permission resolver (app/models/models.py, Usuario) and of  *)
(* the meter-count submission path (app/conteo_impresiones/routes.py,       *)
(* app/controllers/conteos.py, Conteo) of Ecoloimp_mvc.                     *)
(*                                                                         *)
(* The specifications share the variables:                                *)
(*   SpecPermisos    : the permission store and the resolver queries       *)
(*   SpecCatalogo    : the permission store and obtener_permisos           *)
(*   SpecEdicion     : create, edit and delete of controllers/conteos.py   *)
(*   SpecDelta       : Conteo.calcular_diferencias on bounded inputs       *)
(*   SpecConteos     : concurrent requests to routes.nuevo_conteo          *)
(*   SpecControlador : both submission handlers and the deletion, one      *)
(*                     request at a time, over several days                *)
(*   SpecGuardas     : requests through the route guards                   *)
(*   SpecVisitas     : create and edit of controllers/visitas.py           *)
(*   SpecConcesiones : the grant operations on RolPermiso, UsuarioPermiso  *)
(*   SpecVariantes   : construction of SuperAdmin, Admin, Tecnico users    *)
(*   SpecLimitador   : the rate limiter's before_request handler           *)
(*   SpecCsrf        : CSRF token generation and the request check         *)
(*   SpecUsuarios    : user creation, user edit and the role migration     *)
(***************************************************************************)
EXTENDS Integers, Sequences, FiniteSets, Bags, TLC

VARIABLES
    usuarios,           \* Usuario rows: user -> rol
    permisos,           \* Permiso catalog: set of nombres
    roles_permisos,     \* RolPermiso rows: set of <<rol, nombre>>
    usuarios_permisos,  \* UsuarioPermiso rows: set of <<usuario, nombre>>
    consulta,           \* last resolver call and its return value
    calculo,            \* last calcular_diferencias call and its return value
    equipo,             \* the Equipo row
    conteos,            \* Conteo rows
    hoy,                \* datetime.utcnow().date()
    sig_id,             \* next autoincrement Conteo.id
    peticion,           \* per-request state of the submission handlers
    ultima,             \* last response of a submission handler
    respuesta,          \* last response of a route guard
    visitas,            \* Visita rows: id -> estado
    limitador,          \* RateLimiter: store, clock, configuration
    csrf,               \* CSRFProtection: session keys and last outcome
    filas               \* RolPermiso and UsuarioPermiso rows, with repeats

vars == <<usuarios, permisos, roles_permisos, usuarios_permisos, consulta,
          calculo, equipo, conteos, hoy, sig_id, peticion, ultima,
          respuesta, visitas, limitador, csrf, filas>>

webVars == <<respuesta, visitas, limitador, csrf, filas>>
permVars == <<usuarios, permisos, roles_permisos, usuarios_permisos>>
meterVars == <<equipo, conteos, hoy, sig_id, peticion, ultima>>

----------------------------------------------------------------------------
(* Bounds *)

MaxFilasRol == 1        \* rows of roles_permisos explored
MaxFilasUsuario == 1    \* rows of usuarios_permisos explored
MaxArgs == 2            \* length of *permisos in tiene_permisos

----------------------------------------------------------------------------
(* Role registry: Usuario.ROLES *)

ROLES == [superadmin |-> 3, admin |-> 2, tecnico |-> 1, usuario |-> 0]

Roles == DOMAIN ROLES

Users == {"root", "adm", "tec"}

\* users that exist besides the three role variants: one of the registry's
\* lowest role and one whose rol column holds a name outside the registry
OtrosUsuarios == {"usr", "inv"}

\* the three role variants of Usuario (SuperAdmin, Admin, Tecnico) and the
\* other two users
RolInicial ==
    [root |-> "superadmin", adm |-> "admin", tec |-> "tecnico",
     usr |-> "usuario", inv |-> "invitado"]

\* ROLES.get(rol, {}).get('level', 0)
nivel(rol) == IF rol \in DOMAIN ROLES THEN ROLES[rol] ELSE 0

\* permission names used by the guards of the submission path and by the
\* technician defaults
PermNames == {"crear_conteo", "crear_conteos"}

None == "none"

----------------------------------------------------------------------------
(* Permission resolver *)

is_superadmin(u) == usuarios[u] = "superadmin"

is_admin_laxo(u) == nivel(usuarios[u]) >= ROLES["tecnico"]

is_admin(u) == nivel(usuarios[u]) >= ROLES["admin"]

is_tecnico(u) == nivel(usuarios[u]) >= ROLES["tecnico"]

\* Usuario.has_role(*roles): a role name outside the registry has level -1
has_role(u, roles) ==
    \E i \in DOMAIN roles :
        nivel(usuarios[u]) >=
            (IF roles[i] \in DOMAIN ROLES THEN ROLES[roles[i]] ELSE -1)

tiene_permiso_sin_atajo(u, nombre) ==
    \/ <<u, nombre>> \in usuarios_permisos
    \/ <<usuarios[u], nombre>> \in roles_permisos

tiene_permiso_solo_rol(u, nombre) ==
    \/ is_superadmin(u)
    \/ <<usuarios[u], nombre>> \in roles_permisos

\* Usuario.tiene_permiso
tiene_permiso(u, nombre) ==
    IF is_superadmin(u) THEN TRUE
    ELSE IF <<u, nombre>> \in usuarios_permisos THEN TRUE
    ELSE <<usuarios[u], nombre>> \in roles_permisos

Rango(s) == {s[i] : i \in DOMAIN s}

tiene_permisos_invertido(u, ps, todos) ==
    IF is_superadmin(u) THEN TRUE
    ELSE IF ps = <<>> THEN FALSE
    ELSE IF todos THEN \E p \in Rango(ps) : tiene_permiso(u, p)
    ELSE \A p \in Rango(ps) : tiene_permiso(u, p)

\* Usuario.tiene_permisos(*permisos, todos=True)
tiene_permisos(u, ps, todos) ==
    IF is_superadmin(u) THEN TRUE
    ELSE IF ps = <<>> THEN FALSE
    ELSE IF todos THEN \A p \in Rango(ps) : tiene_permiso(u, p)
    ELSE \E p \in Rango(ps) : tiene_permiso(u, p)

ListasPermisos == UNION {[1..n -> PermNames] : n \in 0..MaxArgs}

obtener_permisos_solo_directos(u) ==
    IF is_superadmin(u) THEN permisos
    ELSE {n \in permisos : <<u, n>> \in usuarios_permisos}

\* Usuario.obtener_permisos
obtener_permisos(u) ==
    IF is_superadmin(u) THEN permisos
    ELSE {n \in permisos : <<u, n>> \in usuarios_permisos}
            \cup {n \in permisos : <<usuarios[u], n>> \in roles_permisos}

----------------------------------------------------------------------------
(* Permission store operations *)

SinConsulta == [tipo |-> None]

SinRespuesta ==
    [config |-> <<>>, todos |-> FALSE,
     salida |-> [guarda |-> None, usuario |-> None, xhr |-> FALSE,
                 ejecutado |-> FALSE, estado |-> 0, cuerpo |-> None,
                 destino |-> None]]

\* Permiso(nombre=...) added by the initialisation scripts
CrearPermiso(nombre) ==
    /\ nombre \notin permisos
    /\ permisos' = permisos \cup {nombre}
    /\ UNCHANGED <<usuarios, roles_permisos, usuarios_permisos, consulta,
                   calculo, webVars, meterVars>>

\* RolPermiso.asignar_permiso_rol
asignar_permiso_rol(rol, nombre) ==
    /\ Cardinality(roles_permisos \cup {<<rol, nombre>>}) <= MaxFilasRol
    /\ permisos' = permisos \cup {nombre}
    /\ roles_permisos' = roles_permisos \cup {<<rol, nombre>>}
    /\ UNCHANGED <<usuarios, usuarios_permisos, consulta, calculo, webVars,
                   meterVars>>

\* RolPermiso.quitar_permiso_rol
quitar_permiso_rol(rol, nombre) ==
    /\ nombre \in permisos
    /\ <<rol, nombre>> \in roles_permisos
    /\ roles_permisos' = roles_permisos \ {<<rol, nombre>>}
    /\ UNCHANGED <<usuarios, permisos, usuarios_permisos, consulta, calculo,
                   webVars, meterVars>>

\* UsuarioPermiso.asignar_permiso_usuario
asignar_permiso_usuario(u, nombre) ==
    /\ u \in DOMAIN usuarios
    /\ Cardinality(usuarios_permisos \cup {<<u, nombre>>}) <= MaxFilasUsuario
    /\ permisos' = permisos \cup {nombre}
    /\ usuarios_permisos' = usuarios_permisos \cup {<<u, nombre>>}
    /\ UNCHANGED <<usuarios, roles_permisos, consulta, calculo, webVars,
                   meterVars>>

\* UsuarioPermiso.quitar_permiso_usuario
quitar_permiso_usuario(u, nombre) ==
    /\ nombre \in permisos
    /\ <<u, nombre>> \in usuarios_permisos
    /\ usuarios_permisos' = usuarios_permisos \ {<<u, nombre>>}
    /\ UNCHANGED <<usuarios, permisos, roles_permisos, consulta, calculo,
                   webVars, meterVars>>

\* a caller evaluates Usuario.tiene_permiso
VerificarPermiso(u, nombre) ==
    /\ consulta' = [tipo |-> "tiene_permiso", usuario |-> u,
                    permisos |-> <<nombre>>, todos |-> TRUE,
                    resultado |-> tiene_permiso(u, nombre)]
    /\ UNCHANGED <<permVars, calculo, webVars, meterVars>>

\* a caller evaluates Usuario.obtener_permisos
ObtenerPermisos(u) ==
    /\ consulta' = [tipo |-> "obtener_permisos", usuario |-> u,
                    permisos |-> <<>>, todos |-> TRUE,
                    resultado |-> obtener_permisos(u)]
    /\ UNCHANGED <<permVars, calculo, webVars, meterVars>>

\* a caller evaluates Usuario.tiene_permisos
VerificarPermisos(u, ps, todos) ==
    /\ consulta' = [tipo |-> "tiene_permisos", usuario |-> u,
                    permisos |-> ps, todos |-> todos,
                    resultado |-> tiene_permisos(u, ps, todos)]
    /\ UNCHANGED <<permVars, calculo, webVars, meterVars>>

----------------------------------------------------------------------------
(* Meter-count delta engine: Conteo *)

MAX_CONTADOR == 9999999

MAX_DIFERENCIA_DIARIA == 10000

TiposContador == {"impresion", "escaneo", "copias"}

\* counter readings explored: the boundaries, the reset scenario (99000 ->
\* 50) and the plain scenario (5000 -> 5400)
ValoresContador == {0, 50, 5000, 5400, 99000, MAX_CONTADOR}

Max(a, b) == IF a >= b THEN a ELSE b

diferencia_sin_reinicio(actual, anterior) == Max(0, actual - anterior)

\* body of the loop of Conteo.calcular_diferencias for one tipo
diferencia(actual, anterior) ==
    IF actual < anterior /\ actual > 0 THEN actual
    ELSE Max(0, actual - anterior)

\* Conteo.calcular_diferencias: the returned dict
calcular_diferencias(actual, anterior) ==
    [tipo \in TiposContador |-> diferencia(actual[tipo], anterior[tipo])]

Contadores == [TiposContador -> ValoresContador]

SinCalculo == [tipo |-> None]

\* a caller evaluates calcular_diferencias on a Conteo with the given counters
Calcular ==
    /\ calculo.tipo = "pendiente"
    /\ calculo' = [calculo EXCEPT !.tipo = "hecho",
                     !.resultado = calcular_diferencias(calculo.actual,
                                                        calculo.anterior)]
    /\ UNCHANGED <<permVars, consulta, meterVars, webVars>>

----------------------------------------------------------------------------
(* Meter submissions.  The handlers are modelled at the level of their     *)
(* own statements: a form or model attribute they name is taken to be the  *)
(* column of that meaning (form.contador_impresiones is the field          *)
(* contador_impresiones_actual, contador_actual_impresiones is the column  *)
(* contador_impresion_actual).                                             *)

MaxConteos == 2         \* Conteo rows stored or being written
MaxDia == 2             \* calendar days explored

NULL == -999            \* Python None in an integer or date column

Peticiones == {"p1", "p2"}

Libre == [pc |-> "libre"]

SinUltima == [handler |-> None, etapa |-> None, resultado |-> None]

EquipoInicial ==
    [impresiones |-> 0, escaneos |-> 0, copias |-> 0, fecha |-> NULL,
     estado |-> "activo", fecha_ultimo_mantenimiento |-> NULL,
     fecha_proximo_mantenimiento |-> NULL]

Lectura(i, e, c) == [impresion |-> i, escaneo |-> e, copias |-> c]

\* counter triples a caller submits: in range, zero, negative, above the
\* maximum, for each counter type
Formularios ==
    { Lectura(50, 50, 0), Lectura(MAX_CONTADOR, 50, 50),
      Lectura(0, 50, 0), Lectura(50, 0, 0),
      Lectura(-1, 50, 0), Lectura(50, -1, 0), Lectura(50, 50, -1),
      Lectura(MAX_CONTADOR + 1, 50, 0), Lectura(50, MAX_CONTADOR + 1, 0),
      Lectura(50, 50, MAX_CONTADOR + 1) }

\* values of the read-only field contador_impresiones_anterior of the form
FormAnteriores == {NULL, 5400}

ContadoresEquipo(eq) == Lectura(eq.impresiones, eq.escaneos, eq.copias)

NumPendientes == Cardinality({p \in Peticiones : peticion[p].pc = "pendiente"})

\* at most MaxConteos rows are ever inserted
HayLugar == (sig_id - 1) + NumPendientes < MaxConteos

\* wtforms DataRequired: the coerced data must be truthy
DataRequired(v) == v # 0

\* wtforms NumberRange(min=0)
NumberRange(v) == v >= 0

\* Conteo.validar_contadores: the value is accepted
validar_contadores(v) ==
    \/ v = NULL
    \/ ~(v < 0) /\ ~(v > MAX_CONTADOR)

\* ConteoImpresionForm.validate, with its field and inline validators
FormularioValido(c, anterior_form, requiere, problemas) ==
    /\ DataRequired(c.impresion) /\ NumberRange(c.impresion)
    /\ ~(anterior_form # NULL /\ c.impresion < anterior_form)
    /\ DataRequired(c.escaneo) /\ NumberRange(c.escaneo)
    /\ NumberRange(c.copias)
    /\ ~(requiere /\ ~problemas)
    /\ ~(c.impresion = 0 /\ c.escaneo = 0 /\ c.copias = 0)

\* decorators.permisos_requeridos(*permisos): the handler is admitted
permisos_requeridos(u, ps) ==
    \/ \E i \in DOMAIN ps : tiene_permiso(u, ps[i])
    \/ is_superadmin(u)

\* rows that order_by(fecha_conteo desc).first() can return
UltimosConteos(cs) ==
    {c \in cs : \A d \in cs : d.fecha_conteo <= c.fecha_conteo}

\* columns written by the setattr of calcular_diferencias: the attribute is
\* named 'diferencia_' + tipo + 's', which is a column for 'escaneo' only;
\* the other two columns keep their default 0
diferencias_persistidas(d) ==
    [impresiones |-> 0, escaneos |-> d["escaneo"], copias |-> 0]

\* calcular_diferencias, the test "diferencia > MAX_DIFERENCIA_DIARIA and
\* anterior > 0" on the delta of one tipo
salto_inusual(d, anterior) == d > MAX_DIFERENCIA_DIARIA /\ anterior > 0

\* what that branch records for the reading: its body is pass, and the row
\* has no column for a review mark
revision_registrada(d, anterior) ==
    IF salto_inusual(d, anterior) THEN FALSE ELSE FALSE

\* the review mark of a stored Conteo row
marcado_para_revision(c) ==
    \E t \in TiposContador :
        revision_registrada(diferencia(c.actual[t], c.anterior[t]),
                            c.anterior[t])

\* the response of handler h, produced at stage e of its code
Responder(h, e, r) ==
    ultima' = [handler |-> h, etapa |-> e, resultado |-> r]

\* routes.nuevo_conteo up to the point where the session is committed
NuevoConteoInicio(p, u, c, anterior_form, requiere, problemas, puede_ver) ==
    /\ peticion[p].pc = "libre"
    /\ IF ~permisos_requeridos(u, <<"crear_conteo">>)
       THEN /\ Responder("nuevo_conteo", "guard", "denegado")
            /\ UNCHANGED peticion
       ELSE IF ~FormularioValido(c, anterior_form, requiere, problemas)
       THEN /\ Responder("nuevo_conteo", "form", "invalido")
            /\ UNCHANGED peticion
       ELSE IF ~is_admin(u) /\ ~puede_ver
       THEN /\ Responder("nuevo_conteo", "handler", "denegado")
            /\ UNCHANGED peticion
       ELSE IF \E t \in TiposContador : ~validar_contadores(c[t])
       THEN /\ Responder("nuevo_conteo", "handler", "error")
            /\ UNCHANGED peticion
       ELSE /\ HayLugar
            /\ \E ant \in (IF conteos = {} THEN {Lectura(0, 0, 0)}
                           ELSE {uc.actual : uc \in UltimosConteos(conteos)}) :
                 peticion' = [peticion EXCEPT ![p] =
                    [pc |-> "pendiente",
                     fecha_conteo |-> hoy, actual |-> c, anterior |-> ant,
                     diferencias |->
                        diferencias_persistidas(calcular_diferencias(c, ant)),
                     requiere |-> requiere]]
            /\ UNCHANGED ultima
    /\ UNCHANGED <<permVars, consulta, calculo, webVars,
                   equipo, conteos, hoy, sig_id>>

FilaConteo(id, r) ==
    [id |-> id, fecha_conteo |-> r.fecha_conteo, actual |-> r.actual,
     anterior |-> r.anterior, diferencias |-> r.diferencias]

EquipoTrasConteoSinProxima(eq, r) ==
    LET base == [eq EXCEPT !.impresiones = r.actual.impresion,
                           !.escaneos = r.actual.escaneo,
                           !.copias = r.actual.copias,
                           !.fecha = r.fecha_conteo]
    IN  IF r.requiere
        THEN [base EXCEPT !.estado = "en_mantenimiento",
                          !.fecha_ultimo_mantenimiento = r.fecha_conteo]
        ELSE base

\* the Equipo columns assigned by routes.nuevo_conteo
EquipoTrasConteo(eq, r) ==
    LET base == [eq EXCEPT !.impresiones = r.actual.impresion,
                           !.escaneos = r.actual.escaneo,
                           !.copias = r.actual.copias,
                           !.fecha = r.fecha_conteo]
    IN  IF r.requiere
        THEN [base EXCEPT !.estado = "en_mantenimiento",
                          !.fecha_ultimo_mantenimiento = r.fecha_conteo,
                          !.fecha_proximo_mantenimiento = r.fecha_conteo + 30]
        ELSE base

NuevoConteoCommitParcial(p) ==
    /\ peticion[p].pc = "pendiente"
    /\ \/ /\ conteos' = conteos \cup {FilaConteo(sig_id, peticion[p])}
          /\ equipo' = EquipoTrasConteo(equipo, peticion[p])
          /\ sig_id' = sig_id + 1
          /\ Responder("nuevo_conteo", "commit", "ok")
       \/ /\ conteos' = conteos \cup {FilaConteo(sig_id, peticion[p])}
          /\ sig_id' = sig_id + 1
          /\ Responder("nuevo_conteo", "commit", "error")
          /\ UNCHANGED equipo
    /\ peticion' = [peticion EXCEPT ![p] = Libre]
    /\ UNCHANGED <<permVars, consulta, calculo, webVars, hoy>>

NuevoConteoCommitRelee(p) ==
    /\ peticion[p].pc = "pendiente"
    /\ \/ /\ \E ant \in (IF conteos = {} THEN {Lectura(0, 0, 0)}
                           ELSE {uc.actual : uc \in UltimosConteos(conteos)}) :
                conteos' = conteos \cup
                   {[FilaConteo(sig_id, peticion[p]) EXCEPT
                       !.anterior = ant,
                       !.diferencias = diferencias_persistidas(
                           calcular_diferencias(peticion[p].actual, ant))]}
          /\ equipo' = EquipoTrasConteo(equipo, peticion[p])
          /\ sig_id' = sig_id + 1
          /\ Responder("nuevo_conteo", "commit", "ok")
       \/ /\ Responder("nuevo_conteo", "commit", "error")
          /\ UNCHANGED <<conteos, equipo, sig_id>>
    /\ peticion' = [peticion EXCEPT ![p] = Libre]
    /\ UNCHANGED <<permVars, consulta, calculo, webVars, hoy>>

\* routes.nuevo_conteo: db.session.commit() and the except branch with
\* db.session.rollback()
NuevoConteoCommit(p) ==
    /\ peticion[p].pc = "pendiente"
    /\ \/ /\ conteos' = conteos \cup {FilaConteo(sig_id, peticion[p])}
          /\ equipo' = EquipoTrasConteo(equipo, peticion[p])
          /\ sig_id' = sig_id + 1
          /\ Responder("nuevo_conteo", "commit", "ok")
       \/ /\ Responder("nuevo_conteo", "commit", "error")
          /\ UNCHANGED <<conteos, equipo, sig_id>>
    /\ peticion' = [peticion EXCEPT ![p] = Libre]
    /\ UNCHANGED <<permVars, consulta, calculo, webVars, hoy>>

\* values of Conteo.estado_equipo offered by the forms
EstadosFormulario == {"operativo", "con_fallas"}

\* (actual, anterior) pairs of print and scan counters posted to
\* controllers.conteos.nuevo; the form carries no copy counter
NuevoActuales == {<<5400, 50>>, <<MAX_CONTADOR + 1, 50>>}

NuevoAnteriores == {<<0, 0>>, <<50, 50>>}

Positivo(d) == IF d > 0 THEN d ELSE 0

\* controllers.conteos.nuevo (POST): guarded by login_required only
nuevo(u, fecha, act, ant, estado) ==
    LET c == Lectura(act[1], act[2], 0)
        fila == [id |-> sig_id, fecha_conteo |-> fecha,
                 actual |-> c,
                 anterior |-> Lectura(ant[1], ant[2], 0),
                 diferencias |-> [impresiones |-> Positivo(act[1] - ant[1]),
                                  escaneos |-> Positivo(act[2] - ant[2]),
                                  copias |-> 0]]
    IN
    /\ IF \E t \in TiposContador : ~validar_contadores(c[t])
       THEN /\ Responder("nuevo", "handler", "error")
            /\ UNCHANGED <<conteos, equipo, sig_id>>
       ELSE /\ HayLugar
            /\ \/ /\ conteos' = conteos \cup {fila}
                  /\ equipo' = [equipo EXCEPT !.impresiones = act[1],
                                              !.escaneos = act[2],
                                              !.fecha = fecha,
                                              !.estado = estado]
                  /\ sig_id' = sig_id + 1
                  /\ Responder("nuevo", "commit", "ok")
               \/ /\ Responder("nuevo", "commit", "error")
                  /\ UNCHANGED <<conteos, equipo, sig_id>>
    /\ UNCHANGED <<permVars, consulta, calculo, webVars, hoy, peticion>>

\* controllers.conteos.eliminar
eliminar(u, id) ==
    /\ \E c \in conteos : c.id = id
    /\ IF ~is_admin(u)
       THEN /\ Responder("eliminar", "guard", "denegado")
            /\ UNCHANGED <<conteos, equipo>>
       ELSE LET resto == {c \in conteos : c.id # id} IN
            \/ /\ conteos' = resto
               /\ IF resto = {}
                  THEN equipo' = [equipo EXCEPT !.impresiones = NULL,
                                                !.escaneos = NULL,
                                                !.fecha = NULL]
                  ELSE \E uc \in UltimosConteos(resto) :
                          equipo' = [equipo EXCEPT
                                       !.impresiones = uc.actual.impresion,
                                       !.escaneos = uc.actual.escaneo,
                                       !.fecha = uc.fecha_conteo]
               /\ Responder("eliminar", "commit", "ok")
            \/ /\ Responder("eliminar", "commit", "error")
               /\ UNCHANGED <<conteos, equipo>>
    /\ UNCHANGED <<permVars, consulta, calculo, webVars,
                   hoy, sig_id, peticion>>

\* (actual) pairs of print and scan counters posted to
\* controllers.conteos.editar
EditarActuales == {<<5000, 50>>, <<MAX_CONTADOR + 1, 50>>}

\* controllers.conteos.editar (POST): the row is changed in place; es_autor
\* is the outcome of conteo.registrado_por == current_user.id
editar(u, id, fecha, act, ant, estado, es_autor) ==
    /\ \E c \in conteos : c.id = id
    /\ LET viejo == CHOOSE c \in conteos : c.id = id
           fila == [viejo EXCEPT
                      !.fecha_conteo = fecha,
                      !.actual = [@ EXCEPT !.impresion = act[1],
                                           !.escaneo = act[2]],
                      !.anterior = [@ EXCEPT !.impresion = ant[1],
                                             !.escaneo = ant[2]],
                      !.diferencias =
                          [@ EXCEPT !.impresiones = Positivo(act[1] - ant[1]),
                                    !.escaneos = Positivo(act[2] - ant[2])]]
       IN
       IF ~is_admin(u) /\ ~es_autor
       THEN /\ Responder("editar", "guard", "denegado")
            /\ UNCHANGED <<conteos, equipo>>
       ELSE IF ~validar_contadores(act[1]) \/ ~validar_contadores(act[2])
       THEN /\ Responder("editar", "handler", "error")
            /\ UNCHANGED <<conteos, equipo>>
       ELSE \/ /\ conteos' = (conteos \ {viejo}) \cup {fila}
               /\ equipo' = [equipo EXCEPT !.impresiones = act[1],
                                           !.escaneos = act[2],
                                           !.fecha = fecha,
                                           !.estado = estado]
               /\ Responder("editar", "commit", "ok")
            \/ /\ Responder("editar", "commit", "error")
               /\ UNCHANGED <<conteos, equipo>>
    /\ UNCHANGED <<permVars, consulta, calculo, webVars,
                   hoy, sig_id, peticion>>

\* the calendar day advances
PasaDia ==
    /\ hoy < MaxDia
    /\ hoy' = hoy + 1
    /\ UNCHANGED <<permVars, consulta, calculo, webVars,
                   equipo, conteos, sig_id, peticion, ultima>>

----------------------------------------------------------------------------
(* Route guards: decorators/role_required.py, permission_required.py,    *)
(* permisos.py.  A guard wraps a handler that answers 200.                *)

\* a caller without a session (flask_login's anonymous user)
Anonimo == "anon"

Llamantes == Users \cup OtrosUsuarios \cup {Anonimo}

\* role lists given to role_required: none, the sentinel, registry names
\* alone and together, and a name outside the registry
ListasRoles ==
    { <<>>, <<"any">>, <<"admin">>, <<"tecnico">>, <<"usuario">>,
      <<"tecnico", "admin">>, <<"admin", "any">>, <<"supervisor">> }

\* flask_login.login_required / current_user.is_authenticated
login_required(u) == u # Anonimo

\* f(*args, **kwargs): the wrapped handler ran and its response is returned
Ejecutar(g, u, xhr) ==
    [guarda |-> g, usuario |-> u, xhr |-> xhr, ejecutado |-> TRUE,
     estado |-> 200, cuerpo |-> "handler", destino |-> None]

\* a response produced by the guard itself
Rechazar(g, u, xhr, estado, cuerpo, destino) ==
    [guarda |-> g, usuario |-> u, xhr |-> xhr, ejecutado |-> FALSE,
     estado |-> estado, cuerpo |-> cuerpo, destino |-> destino]

\* current_app.login_manager.unauthorized() with login_view = 'auth.login'
NoAutenticado(g, u, xhr) == Rechazar(g, u, xhr, 302, "flash", "auth.login")

\* the denial block shared by role_required and permission_required.
\* request.is_xhr exists only in Werkzeug before 1.0 (con_is_xhr); without
\* it the expression raises and the request ends in a 500.  url_for may
\* raise for the dashboards (error_url), which the except turns into
\* main.index.
Denegar(g, u, xhr, con_is_xhr, error_url) ==
    IF ~con_is_xhr THEN Rechazar(g, u, xhr, 500, "error", None)
    ELSE IF xhr THEN Rechazar(g, u, xhr, 403, "json", None)
    ELSE Rechazar(g, u, xhr, 302, "flash",
                  IF error_url THEN "main.index"
                  ELSE IF is_admin(u) THEN "admin.dashboard"
                  ELSE IF is_tecnico(u) THEN "tecnico.dashboard"
                  ELSE "main.index")

\* the guard's answer as recorded, with the configuration of the guard
Registro(r, config, todos) == [config |-> config, todos |-> todos, salida |-> r]

\* a guard keeps nothing between requests, so one request per behaviour
\* reaches every answer
SinAtender ==
    /\ respuesta = SinRespuesta
    /\ UNCHANGED <<permVars, consulta, calculo, meterVars,
                   visitas, limitador, csrf, filas>>

role_required_sin_login(u, roles, xhr, con_is_xhr, error_url) ==
    /\ SinAtender
    /\ respuesta' = Registro(
        IF roles = <<>> \/ "any" \in Rango(roles)
        THEN Ejecutar("role_required", u, xhr)
        ELSE IF ~login_required(u) THEN NoAutenticado("role_required", u, xhr)
        ELSE IF has_role(u, roles) THEN Ejecutar("role_required", u, xhr)
        ELSE Denegar("role_required", u, xhr, con_is_xhr, error_url),
        roles, FALSE)

\* decorators.role_required(*roles)
role_required(u, roles, xhr, con_is_xhr, error_url) ==
    /\ SinAtender
    /\ respuesta' = Registro(
        IF ~login_required(u) THEN NoAutenticado("role_required", u, xhr)
        ELSE IF roles = <<>> \/ "any" \in Rango(roles)
        THEN Ejecutar("role_required", u, xhr)
        ELSE IF has_role(u, roles) THEN Ejecutar("role_required", u, xhr)
        ELSE Denegar("role_required", u, xhr, con_is_xhr, error_url),
        roles, FALSE)

\* decorators.permission_required(*permissions, require_all=True)
permission_required(u, ps, require_all, xhr, con_is_xhr, error_url) ==
    /\ SinAtender
    /\ respuesta' = Registro(
        IF ~login_required(u)
        THEN NoAutenticado("permission_required", u, xhr)
        ELSE IF is_superadmin(u) THEN Ejecutar("permission_required", u, xhr)
        ELSE IF ps = <<>> THEN Ejecutar("permission_required", u, xhr)
        ELSE IF tiene_permisos(u, ps, require_all)
        THEN Ejecutar("permission_required", u, xhr)
        ELSE Denegar("permission_required", u, xhr, con_is_xhr, error_url),
        ps, require_all)

\* decorators.permisos.permiso_requerido(nombre_permiso)
permiso_requerido(u, nombre, xhr) ==
    /\ SinAtender
    /\ respuesta' = Registro(
        IF ~login_required(u)
        THEN Rechazar("permiso_requerido", u, xhr, 302, "none", "auth.login")
        ELSE IF ~tiene_permiso(u, nombre)
        THEN Rechazar("permiso_requerido", u, xhr, 302, "flash", "main.index")
        ELSE Ejecutar("permiso_requerido", u, xhr),
        <<nombre>>, TRUE)

\* decorators.permisos.permiso_requerido_api(nombre_permiso)
permiso_requerido_api(u, nombre, xhr) ==
    /\ SinAtender
    /\ respuesta' = Registro(
        IF ~login_required(u)
        THEN Rechazar("permiso_requerido_api", u, xhr, 401, "json", None)
        ELSE IF ~tiene_permiso(u, nombre)
        THEN Rechazar("permiso_requerido_api", u, xhr, 403, "json", None)
        ELSE Ejecutar("permiso_requerido_api", u, xhr),
        <<nombre>>, TRUE)

----------------------------------------------------------------------------
(* Grants at the level of rows: RolPermiso and UsuarioPermiso rows are    *)
(* kept as bags of pairs, roles_permisos and usuarios_permisos are the    *)
(* pairs present                                                          *)

\* both tables empty
SinFilas == [rol |-> EmptyBag, usuario |-> EmptyBag]

\* roles, users and names of the grants explored
RolesConcesion == {"admin", "tecnico"}
UsuariosConcesion == {"adm", "tec"}
NombresConcesion == {"crear_conteos", "gestionar_permisos"}

\* db.session.add of a row under UniqueConstraint('rol', 'permiso_id') or
\* ('usuario_id', 'permiso_id'): a second row of the same pair is refused
insertar(tabla, fila) ==
    IF CopiesIn(fila, tabla) > 0
    THEN [retorno |-> "IntegrityError", tabla |-> tabla]
    ELSE [retorno |-> "True", tabla |-> tabla (+) SetToBag({fila})]

\* the tables and the resolver's view of them after a grant
Guardar(tabla_rol, tabla_usuario) ==
    /\ filas' = [rol |-> tabla_rol, usuario |-> tabla_usuario]
    /\ roles_permisos' = BagToSet(tabla_rol)
    /\ usuarios_permisos' = BagToSet(tabla_usuario)

Retorno(tipo, destino, nombres, r) ==
    consulta' = [tipo |-> tipo, destino |-> destino, nombres |-> nombres,
                 resultado |-> r]

RolPermiso_asignar_permiso_rol_sin_verificar(rol, nombre) ==
    LET r == insertar(filas.rol, <<rol, nombre>>) IN
    /\ permisos' = permisos \cup {nombre}
    /\ Guardar(r.tabla, filas.usuario)
    /\ Retorno("asignar_permiso_rol", rol, {nombre}, r.retorno)
    /\ UNCHANGED <<usuarios, calculo, respuesta, visitas, limitador, csrf,
                   meterVars>>

\* RolPermiso.asignar_permiso_rol on the rows: the Permiso is created when
\* missing, the row is added unless one of the pair is found
RolPermiso_asignar_permiso_rol(rol, nombre) ==
    LET r == IF <<rol, nombre>> \in BagToSet(filas.rol)
             THEN [retorno |-> "False", tabla |-> filas.rol]
             ELSE insertar(filas.rol, <<rol, nombre>>)
    IN
    /\ permisos' = permisos \cup {nombre}
    /\ Guardar(r.tabla, filas.usuario)
    /\ Retorno("asignar_permiso_rol", rol, {nombre}, r.retorno)
    /\ UNCHANGED <<usuarios, calculo, respuesta, visitas, limitador, csrf,
                   meterVars>>

\* UsuarioPermiso.asignar_permiso_usuario on the rows
UsuarioPermiso_asignar_permiso_usuario(u, nombre) ==
    IF u \notin DOMAIN usuarios
    THEN /\ Retorno("asignar_permiso_usuario", u, {nombre}, "False")
         /\ UNCHANGED <<permVars, filas, calculo, respuesta, visitas,
                        limitador, csrf, meterVars>>
    ELSE LET r == IF <<u, nombre>> \in BagToSet(filas.usuario)
                  THEN [retorno |-> "False", tabla |-> filas.usuario]
                  ELSE insertar(filas.usuario, <<u, nombre>>)
         IN
         /\ permisos' = permisos \cup {nombre}
         /\ Guardar(filas.rol, r.tabla)
         /\ Retorno("asignar_permiso_usuario", u, {nombre}, r.retorno)
         /\ UNCHANGED <<usuarios, calculo, respuesta, visitas, limitador,
                        csrf, meterVars>>

\* Usuario.agregar_permiso: a RolPermiso row for the user's role, unless
\* tiene_permiso already answers True
agregar_permiso(u, nombre) ==
    IF tiene_permiso(u, nombre)
    THEN /\ Retorno("agregar_permiso", u, {nombre}, "False")
         /\ UNCHANGED <<permVars, filas, calculo, respuesta, visitas,
                        limitador, csrf, meterVars>>
    ELSE LET r == insertar(filas.rol, <<usuarios[u], nombre>>) IN
         /\ permisos' = permisos \cup {nombre}
         /\ Guardar(r.tabla, filas.usuario)
         /\ Retorno("agregar_permiso", u, {nombre}, r.retorno)
         /\ UNCHANGED <<usuarios, calculo, respuesta, visitas, limitador,
                        csrf, meterVars>>

\* the role variants of Usuario and, of each variant's default list in
\* asignar_permisos_por_defecto, the first two names
Variantes == {"superadmin", "admin", "tecnico"}

PermisosPorDefecto ==
    [superadmin |-> <<"admin_todo", "gestionar_usuarios">>,
     admin |-> <<"gestionar_tecnicos", "gestionar_clientes">>,
     tecnico |-> <<"ver_conteos_propios", "crear_conteos">>]

\* Usuario.agregar_permiso for the user under construction, who has the
\* role rol and no UsuarioPermiso row: the RolPermiso table afterwards
agregar_permiso_en_init(tabla, rol, nombre) ==
    IF rol = "superadmin" \/ <<rol, nombre>> \in BagToSet(tabla)
    THEN tabla
    ELSE insertar(tabla, <<rol, nombre>>).tabla

RECURSIVE asignar_permisos_por_defecto(_, _, _)
\* the loop "for permiso in permisos_...: self.agregar_permiso(permiso)"
asignar_permisos_por_defecto(tabla, rol, lista) ==
    IF lista = <<>> THEN tabla
    ELSE asignar_permisos_por_defecto(
             agregar_permiso_en_init(tabla, rol, Head(lista)),
             rol, Tail(lista))

\* SuperAdmin.__init__, Admin.__init__, Tecnico.__init__: the role is set
\* and the defaults are assigned
Variante_init(n, variante) ==
    LET tabla == asignar_permisos_por_defecto(filas.rol, variante,
                                              PermisosPorDefecto[variante])
    IN
    /\ n \notin DOMAIN usuarios
    /\ usuarios' = [u \in DOMAIN usuarios \cup {n} |->
                      IF u = n THEN variante ELSE usuarios[u]]
    /\ permisos' = permisos \cup {f[2] : f \in BagToSet(tabla)}
    /\ Guardar(tabla, filas.usuario)
    /\ Retorno("__init__", n, Rango(PermisosPorDefecto[variante]), variante)
    /\ UNCHANGED <<calculo, respuesta, visitas, limitador, csrf, meterVars>>

\* the rows of a bag that are not of role rol with a name in nombres
SinFilasDe(tabla, rol, nombres) ==
    [f \in {g \in BagToSet(tabla) : ~(g[1] = rol /\ g[2] \in nombres)} |->
        CopiesIn(f, tabla)]

RECURSIVE InsertarTodas(_, _, _)
\* the loop "for pid in agregar_ids" of admin_permisos.asignar_permiso
InsertarTodas(tabla, rol, nombres) ==
    IF nombres = {} THEN tabla
    ELSE LET n == CHOOSE x \in nombres : TRUE
             t == IF n \notin permisos THEN tabla
                  ELSE IF <<rol, n>> \in BagToSet(tabla) THEN tabla
                  ELSE insertar(tabla, <<rol, n>>).tabla
         IN  InsertarTodas(t, rol, nombres \ {n})

\* admin_permisos.asignar_permiso (POST /asignar): the role's permissions
\* are replaced by the posted list
asignar_permiso(u, rol, nuevos) ==
    IF ~tiene_permiso(u, "gestionar_permisos")
    THEN /\ Retorno("asignar_permiso", rol, nuevos, "denegado")
         /\ UNCHANGED <<permVars, filas, calculo, respuesta, visitas,
                        limitador, csrf, meterVars>>
    ELSE LET actuales == {f[2] : f \in {g \in BagToSet(filas.rol) :
                                           g[1] = rol}}
             agregar_ids == nuevos \ actuales
             eliminar_ids == actuales \ nuevos
             tabla == InsertarTodas(SinFilasDe(filas.rol, rol, eliminar_ids),
                                    rol, agregar_ids)
         IN
         /\ Guardar(tabla, filas.usuario)
         /\ consulta' = [tipo |-> "asignar_permiso", destino |-> rol,
                         nombres |-> nuevos, resultado |-> "ok",
                         agregados |-> Cardinality(agregar_ids),
                         eliminados |-> Cardinality(eliminar_ids)]
         /\ UNCHANGED <<usuarios, permisos, calculo, respuesta, visitas,
                        limitador, csrf, meterVars>>

----------------------------------------------------------------------------
(* Technical visits: controllers/visitas.py, Visita *)

MaxVisitas == 3         \* Visita rows created

\* values of Visita.estado
EstadosVisita == {"programada", "en_proceso", "completada", "cancelada"}

\* the Visita table before any visit is created; the row with id i is the
\* i-th element
SinVisitas == <<>>

\* controllers.visitas.nueva (POST): guarded by login_required only
visitas_nueva(u, estado) ==
    /\ Len(visitas) < MaxVisitas
    /\ \/ /\ visitas' = Append(visitas, estado)
          /\ Responder("visitas.nueva", "commit", "ok")
       \/ /\ Responder("visitas.nueva", "commit", "error")
          /\ UNCHANGED visitas
    /\ UNCHANGED <<permVars, consulta, calculo, respuesta, limitador, csrf,
                   filas, equipo, conteos, hoy, sig_id, peticion>>

\* controllers.visitas.editar (POST); es_asignado is the outcome of
\* visita.tecnico.usuario_id == current_user.id
visitas_editar(u, id, estado, es_asignado) ==
    /\ id \in DOMAIN visitas
    /\ IF ~is_admin(u) /\ (~is_tecnico(u) \/ ~es_asignado)
       THEN /\ Responder("visitas.editar", "guard", "denegado")
            /\ UNCHANGED visitas
       ELSE \/ /\ visitas' = [visitas EXCEPT ![id] = estado]
               /\ Responder("visitas.editar", "commit", "ok")
            \/ /\ Responder("visitas.editar", "commit", "error")
               /\ UNCHANGED visitas
    /\ UNCHANGED <<permVars, consulta, calculo, respuesta, limitador, csrf,
                   filas, equipo, conteos, hoy, sig_id, peticion>>

----------------------------------------------------------------------------
(* User management: controllers/usuarios_controller.py and the role       *)
(* migration scripts/migrate_roles_permissions.py                         *)

\* users the handlers create, besides the three that exist
UsuariosNuevos == {"n1"}

\* the form field 'rol': a registered role, an old role name, a name of no
\* registry, or no field
RolesEnviados == {"admin", "tecnico", "superusuario", "invitado", None}

STANDARD_ROLES == {"superadmin", "admin", "tecnico"}

\* role_mapping.get(rol.lower(), 'tecnico') of update_user_roles
role_mapping(rol) ==
    IF rol = "administrador" THEN "admin"
    ELSE IF rol = "superusuario" THEN "superadmin"
    ELSE "tecnico"

\* usuarios_controller.nuevo (POST): guarded by login_required only
usuarios_nuevo(n, rol) ==
    /\ n \notin DOMAIN usuarios
    /\ usuarios' = [u \in DOMAIN usuarios \cup {n} |->
                      IF u # n THEN usuarios[u]
                      ELSE IF rol = None THEN "tecnico" ELSE rol]
    /\ UNCHANGED <<permisos, roles_permisos, usuarios_permisos, consulta,
                   calculo, webVars, meterVars>>

\* usuarios_controller.editar (POST)
usuarios_editar(u, rol) ==
    /\ u \in DOMAIN usuarios
    /\ usuarios' = [usuarios EXCEPT ![u] = IF rol = None THEN @ ELSE rol]
    /\ UNCHANGED <<permisos, roles_permisos, usuarios_permisos, consulta,
                   calculo, webVars, meterVars>>

\* migrate_roles_permissions.update_user_roles
update_user_roles ==
    /\ usuarios' = [u \in DOMAIN usuarios |->
                      IF usuarios[u] \notin STANDARD_ROLES
                      THEN role_mapping(usuarios[u]) ELSE usuarios[u]]
    /\ UNCHANGED <<permisos, roles_permisos, usuarios_permisos, consulta,
                   calculo, webVars, meterVars>>

----------------------------------------------------------------------------
(* Request middleware: middleware/rate_limiter.py, csrf_protection.py *)

MaxReloj == 2           \* seconds of time.time() explored
MaxPeticiones == 5      \* requests handled in one behaviour

\* a part of a configuration string, "<count> <period>", split as
\* part.partition(' ') splits it: the text before the first space as count,
\* the rest (as its words) as period
Parte(count, period) == [count |-> count, period |-> period]

\* app.config.setdefault('RATELIMIT_DEFAULT', '200 per day;50 per hour')
RATELIMIT_DEFAULT ==
    <<Parte(200, <<"per", "day">>), Parte(50, <<"per", "hour">>)>>

\* the configurations explored: the default, and strings with small counts
\* '2 per second', '2 second', '1 second;2 minute'
Configuraciones ==
    {RATELIMIT_DEFAULT,
     <<Parte(2, <<"per", "second">>)>>,
     <<Parte(2, <<"second">>)>>,
     <<Parte(1, <<"second">>), Parte(2, <<"minute">>)>>}

\* the seconds of a period word
SegundosDe(palabra) ==
    CASE palabra \in {"second", "seconds"} -> 1
      [] palabra \in {"minute", "minutes"} -> 60
      [] palabra \in {"hour", "hours"} -> 3600
      [] palabra \in {"day", "days"} -> 86400
      [] OTHER -> 0

RECURSIVE parse_rate_limit_config(_)
\* RateLimiter._parse_rate_limit_config: period.startswith('second') and
\* the like are tests on the beginning of period; a part whose period
\* begins otherwise is logged and left out
parse_rate_limit_config(config) ==
    IF config = <<>> THEN <<>>
    ELSE LET part == Head(config)
             seconds == IF part.period = <<>> THEN 0
                        ELSE SegundosDe(Head(part.period))
         IN (IF seconds = 0 THEN <<>>
             ELSE <<[count |-> part.count, seconds |-> seconds]>>)
            \o parse_rate_limit_config(Tail(config))

\* the identifiers of _get_identifier and the request paths
Identificadores == {"user:1", "ip:a"}

Rutas == {"/conteos", "/static/app.js"}

RutaExenta(path) == path = "/static/app.js"

\* self.rate_limit_store[key], 0 when the key is absent
Cuenta(store, key) == IF key \in DOMAIN store THEN store[key] ELSE 0

RECURSIVE RevisarLimites(_, _, _, _)
\* the loop "for count, seconds in limits" of _check_rate_limit: each
\* counter is incremented before it is compared; the exception leaves
\* the loop
RevisarLimites(store, identifier, t, limits) ==
    IF limits = <<>> THEN [store |-> store, excedido |-> FALSE]
    ELSE LET l == Head(limits)
             key == <<identifier, t \div l.seconds, l.seconds>>
             s1 == [k \in DOMAIN store \cup {key} |->
                       IF k = key THEN Cuenta(store, key) + 1
                       ELSE store[k]]
         IN IF s1[key] > l.count
            THEN [store |-> s1, excedido |-> TRUE]
            ELSE RevisarLimites(s1, identifier, t, Tail(limits))

\* RateLimiter._cleanup_old_entries
cleanup_old_entries(store, t) ==
    LET quedan == {k \in DOMAIN store : ~((t \div k[3]) > k[2] + 1)}
    IN [k \in quedan |-> store[k]]

LimitadorCon(config) ==
    [config |-> config, enabled |-> TRUE, store |-> [k \in {} |-> 0],
     reloj |-> 0, n |-> 0, admitidas |-> EmptyBag,
     ultima |-> [identifier |-> None, resultado |-> None]]

LimitadorInicial == LimitadorCon(RATELIMIT_DEFAULT)

\* RateLimiter._check_rate_limit, the before_request handler; admitidas
\* records the (identifier, second) of each request let through on a path
\* that is not exempt
check_rate_limit(identifier, path) ==
    LET limits == parse_rate_limit_config(limitador.config)
        r == RevisarLimites(limitador.store, identifier, limitador.reloj,
                            limits)
        pasa == [limitador EXCEPT
                   !.n = @ + 1,
                   !.admitidas = @ (+) SetToBag({<<identifier,
                                                   limitador.reloj>>}),
                   !.ultima = [identifier |-> identifier,
                               resultado |-> "admitida"]]
    IN
    /\ limitador.n < MaxPeticiones
    /\ limitador' =
         IF ~limitador.enabled \/ RutaExenta(path)
         THEN [limitador EXCEPT !.n = @ + 1,
                 !.ultima = [identifier |-> identifier,
                             resultado |-> "exenta"]]
         ELSE IF limits = <<>> THEN pasa
         ELSE IF r.excedido
         THEN [limitador EXCEPT !.n = @ + 1, !.store = r.store,
                 !.ultima = [identifier |-> identifier,
                             resultado |-> "TooManyRequests"]]
         ELSE [pasa EXCEPT
                 !.store = cleanup_old_entries(r.store, limitador.reloj)]
    /\ UNCHANGED <<permVars, consulta, calculo, meterVars, respuesta,
                   visitas, csrf, filas>>

\* time.time() advances by one second
Tic ==
    /\ limitador.reloj < MaxReloj
    /\ limitador' = [limitador EXCEPT !.reloj = @ + 1]
    /\ UNCHANGED <<permVars, consulta, calculo, meterVars, respuesta,
                   visitas, csrf, filas>>

MaxTics == 3            \* steps of the clock explored by the CSRF check

\* app.config.setdefault('WTF_CSRF_TIME_LIMIT', 3600)
WTF_CSRF_TIME_LIMIT == 3600

\* time() when the first request arrives and the seconds between two
\* observations of it; a session without timestamp reads 0, long ago
TiempoInicial == 7200

PasoDeTiempo == 1800

Sesiones == {"s1", "s2"}

\* values of secrets.token_hex(32), and a value another writer of
\* session['csrf_token'] (the CSRFProtect extension) may have stored
Tokens == {"t1", "t2"}

TokensAjenos == {"w1"}

MetodosSeguros == {"GET", "HEAD", "OPTIONS", "TRACE"}

Metodos == {"GET", "POST"}

\* hmac.new(secret_key, token, sha256).hexdigest()
Firma(token) == <<"hmac", token>>

\* an empty session: claves are the keys present; the other fields hold
\* the values under '_csrf_token' (as the pair token, signature joined by
\* ':'), '_csrf_token_timestamp' and 'csrf_token'
SesionVacia ==
    [claves |-> {}, _csrf_token |-> <<None, Firma(None)>>,
     _csrf_token_timestamp |-> 0, csrf_token |-> None]

CsrfInicial ==
    [enabled |-> TRUE, sessions |-> [s \in Sesiones |-> SesionVacia],
     reloj |-> TiempoInicial, ultima |-> [op |-> None]]

\* CSRFProtection._verify_csrf_token
verify_csrf_token(ses, token, t) ==
    IF token = None \/ "csrf_token" \notin ses.claves THEN FALSE
    ELSE LET stored_token == ses.csrf_token
             token_timestamp ==
                 IF "_csrf_token_timestamp" \in ses.claves
                 THEN ses._csrf_token_timestamp ELSE 0
         IN IF (t - token_timestamp) > WTF_CSRF_TIME_LIMIT THEN FALSE
            ELSE token = stored_token

\* CSRFProtection.generate_csrf_token: the token is stored, signed, under
\* '_csrf_token' when the session has none; the part before ':' is returned
generate_csrf_token(s, token) ==
    LET ses == csrf.sessions[s]
        ses1 == IF "_csrf_token" \notin ses.claves
                THEN [ses EXCEPT
                        !.claves = @ \cup {"_csrf_token",
                                           "_csrf_token_timestamp"},
                        !._csrf_token = <<token, Firma(token)>>,
                        !._csrf_token_timestamp = csrf.reloj]
                ELSE ses
    IN
    /\ csrf' = [csrf EXCEPT
                  !.sessions[s] = ses1,
                  !.ultima = [op |-> "generate_csrf_token", session |-> s,
                              token |-> ses1._csrf_token[1]]]
    /\ UNCHANGED <<permVars, consulta, calculo, meterVars, respuesta,
                   visitas, limitador, filas>>

\* another component stores a value under session['csrf_token']
otro_csrf_token(s, valor) ==
    /\ "csrf_token" \notin csrf.sessions[s].claves
    /\ csrf' = [csrf EXCEPT
                  !.sessions[s].claves = @ \cup {"csrf_token"},
                  !.sessions[s].csrf_token = valor,
                  !.ultima = [op |-> "otro", session |-> s, token |-> valor]]
    /\ UNCHANGED <<permVars, consulta, calculo, meterVars, respuesta,
                   visitas, limitador, filas>>

\* CSRFProtection._csrf_protect, the before_request handler; token is what
\* _get_csrf_token finds in the form, the headers or the JSON body
\* (None when nothing is found), bearer says that an authenticated user
\* sent "Authorization: Bearer ...", exenta that the endpoint is exempt
csrf_protect(s, method, token, bearer, exenta) ==
    LET pasa == \/ ~csrf.enabled
                \/ method \in MetodosSeguros
                \/ bearer
                \/ exenta
                \/ ~(token = None
                     \/ ~verify_csrf_token(csrf.sessions[s], token,
                                           csrf.reloj))
    IN
    /\ csrf' = [csrf EXCEPT
                  !.ultima = [op |-> "_csrf_protect", session |-> s,
                              method |-> method, token |-> token,
                              bearer |-> bearer, exenta |-> exenta,
                              resultado |-> IF pasa THEN "pasa" ELSE "403"]]
    /\ UNCHANGED <<permVars, consulta, calculo, meterVars, respuesta,
                   visitas, limitador, filas>>

\* time() advances
TicCsrf ==
    /\ csrf.reloj < TiempoInicial + MaxTics * PasoDeTiempo
    /\ csrf' = [csrf EXCEPT !.reloj = @ + PasoDeTiempo,
                            !.ultima = [op |-> "time"]]
    /\ UNCHANGED <<permVars, consulta, calculo, meterVars, respuesta,
                   visitas, limitador, filas>>

----------------------------------------------------------------------------
(* Specifications *)

InitPermisos ==
    /\ usuarios = RolInicial
    /\ permisos = {}
    /\ roles_permisos = {}
    /\ usuarios_permisos = {}
    /\ consulta = SinConsulta
    /\ calculo = SinCalculo
    /\ equipo = EquipoInicial
    /\ conteos = {}
    /\ hoy = 1
    /\ sig_id = 1
    /\ peticion = [p \in Peticiones |-> Libre]
    /\ ultima = SinUltima
    /\ respuesta = SinRespuesta
    /\ visitas = SinVisitas
    /\ limitador = LimitadorInicial
    /\ csrf = CsrfInicial
    /\ filas = SinFilas

NextPermisos ==
    \/ \E n \in PermNames : CrearPermiso(n)
    \/ \E r \in Roles, n \in PermNames : asignar_permiso_rol(r, n)
    \/ \E r \in Roles, n \in PermNames : quitar_permiso_rol(r, n)
    \/ \E u \in Users, n \in PermNames : asignar_permiso_usuario(u, n)
    \/ \E u \in Users, n \in PermNames : quitar_permiso_usuario(u, n)
    \/ \E u \in Users, n \in PermNames : VerificarPermiso(u, n)
    \/ \E u \in Users, ps \in ListasPermisos, t \in BOOLEAN :
          VerificarPermisos(u, ps, t)

SpecPermisos == InitPermisos /\ [][NextPermisos]_vars

\* the permission store with callers of obtener_permisos
NextCatalogo ==
    \/ \E n \in PermNames : CrearPermiso(n)
    \/ \E r \in Roles, n \in PermNames : asignar_permiso_rol(r, n)
    \/ \E r \in Roles, n \in PermNames : quitar_permiso_rol(r, n)
    \/ \E u \in Users, n \in PermNames : asignar_permiso_usuario(u, n)
    \/ \E u \in Users, n \in PermNames : quitar_permiso_usuario(u, n)
    \/ \E u \in Users : ObtenerPermisos(u)

SpecCatalogo == InitPermisos /\ [][NextCatalogo]_vars

InitDelta ==
    /\ usuarios = RolInicial
    /\ permisos = {}
    /\ roles_permisos = {}
    /\ usuarios_permisos = {}
    /\ consulta = SinConsulta
    /\ \E a \in Contadores, b \in Contadores :
          calculo = [tipo |-> "pendiente", actual |-> a, anterior |-> b,
                     resultado |-> None]
    /\ equipo = EquipoInicial
    /\ conteos = {}
    /\ hoy = 1
    /\ sig_id = 1
    /\ peticion = [p \in Peticiones |-> Libre]
    /\ ultima = SinUltima
    /\ respuesta = SinRespuesta
    /\ visitas = SinVisitas
    /\ limitador = LimitadorInicial
    /\ csrf = CsrfInicial
    /\ filas = SinFilas

NextDelta == Calcular

SpecDelta == InitDelta /\ [][NextDelta]_vars

\* permission tables of the submission specifications: crear_conteo (the
\* name in the catalog of init_permissions.py) is granted directly to the
\* technician; no role holds crear_conteo or crear_conteos
InitConteos ==
    /\ usuarios = RolInicial
    /\ permisos = PermNames
    /\ roles_permisos = {}
    /\ usuarios_permisos = {<<"tec", "crear_conteo">>}
    /\ consulta = SinConsulta
    /\ calculo = SinCalculo
    /\ equipo = EquipoInicial
    /\ conteos = {}
    /\ hoy = 1
    /\ sig_id = 1
    /\ peticion = [p \in Peticiones |-> Libre]
    /\ ultima = SinUltima
    /\ respuesta = SinRespuesta
    /\ visitas = SinVisitas
    /\ limitador = LimitadorInicial
    /\ csrf = CsrfInicial
    /\ filas = SinFilas

\* routes.nuevo_conteo handled by request p
NuevoConteo(p) ==
    \/ \E u \in Users, c \in Formularios, af \in FormAnteriores,
          rm \in BOOLEAN, pr \in BOOLEAN, pv \in BOOLEAN :
          NuevoConteoInicio(p, u, c, af, rm, pr, pv)
    \/ NuevoConteoCommit(p)

\* concurrent requests to routes.nuevo_conteo within one day
NextConteos == \E p \in Peticiones : NuevoConteo(p)

SpecConteos == InitConteos /\ [][NextConteos]_vars

\* one request at a time, through both submission paths and the deletion
NextControlador ==
    \/ NuevoConteo("p1")
    \/ \E u \in Users, f \in 1..MaxDia, act \in NuevoActuales,
          ant \in NuevoAnteriores, e \in EstadosFormulario :
          nuevo(u, f, act, ant, e)
    \/ \E u \in Users, id \in 1..MaxConteos : eliminar(u, id)
    \/ PasaDia

SpecControlador == InitConteos /\ [][NextControlador]_vars

\* the handlers of controllers/conteos.py, one request at a time
NextEdicion ==
    \/ \E u \in Users, f \in 1..MaxDia, act \in NuevoActuales,
          ant \in NuevoAnteriores, e \in EstadosFormulario :
          nuevo(u, f, act, ant, e)
    \/ \E u \in Users, id \in 1..MaxConteos, f \in 1..MaxDia,
          act \in EditarActuales, ant \in NuevoAnteriores,
          e \in EstadosFormulario, es_autor \in BOOLEAN :
          editar(u, id, f, act, ant, e, es_autor)
    \/ \E u \in Users, id \in 1..MaxConteos : eliminar(u, id)

SpecEdicion == InitConteos /\ [][NextEdicion]_vars

\* the handlers of controllers/visitas.py, one request at a time
NextVisitas ==
    \/ \E u \in Users, e \in EstadosVisita : visitas_nueva(u, e)
    \/ \E u \in Users, id \in 1..MaxVisitas, e \in EstadosVisita,
          es_asignado \in BOOLEAN : visitas_editar(u, id, e, es_asignado)

\* the three role variants exist, the catalog holds crear_conteos, no
\* permission is granted
InitConcesiones ==
    /\ usuarios = [u \in Users |-> RolInicial[u]]
    /\ permisos = {"crear_conteos"}
    /\ roles_permisos = {}
    /\ usuarios_permisos = {}
    /\ consulta = SinConsulta
    /\ calculo = SinCalculo
    /\ equipo = EquipoInicial
    /\ conteos = {}
    /\ hoy = 1
    /\ sig_id = 1
    /\ peticion = [p \in Peticiones |-> Libre]
    /\ ultima = SinUltima
    /\ respuesta = SinRespuesta
    /\ visitas = SinVisitas
    /\ limitador = LimitadorInicial
    /\ csrf = CsrfInicial
    /\ filas = SinFilas

\* the grant operations, one at a time
NextConcesiones ==
    \/ \E r \in RolesConcesion, n \in NombresConcesion :
          RolPermiso_asignar_permiso_rol(r, n)
    \/ \E u \in UsuariosConcesion \cup {"nadie"}, n \in NombresConcesion :
          UsuarioPermiso_asignar_permiso_usuario(u, n)
    \/ \E u \in Users, n \in NombresConcesion : agregar_permiso(u, n)
    \/ \E u \in Users, r \in RolesConcesion,
          nuevos \in SUBSET NombresConcesion : asignar_permiso(u, r, nuevos)

SpecConcesiones == InitConcesiones /\ [][NextConcesiones]_vars

\* users of the three variants are constructed; role grants in between
NextVariantes ==
    \/ \E n \in {"n1", "n2"}, v \in Variantes : Variante_init(n, v)
    \/ \E r \in RolesConcesion, n \in {"crear_conteos"} :
          RolPermiso_asignar_permiso_rol(r, n)

SpecVariantes == InitConcesiones /\ [][NextVariantes]_vars

\* a limiter of one of the configurations
InitLimitador ==
    /\ usuarios = [u \in Users |-> RolInicial[u]]
    /\ permisos = {}
    /\ roles_permisos = {}
    /\ usuarios_permisos = {}
    /\ consulta = SinConsulta
    /\ calculo = SinCalculo
    /\ equipo = EquipoInicial
    /\ conteos = {}
    /\ hoy = 1
    /\ sig_id = 1
    /\ peticion = [p \in Peticiones |-> Libre]
    /\ ultima = SinUltima
    /\ respuesta = SinRespuesta
    /\ visitas = SinVisitas
    /\ limitador \in {LimitadorCon(c) : c \in Configuraciones}
    /\ csrf = CsrfInicial
    /\ filas = SinFilas

NextLimitador ==
    \/ \E i \in Identificadores, p \in Rutas : check_rate_limit(i, p)
    \/ Tic

SpecLimitador == InitLimitador /\ [][NextLimitador]_vars

\* tokens are generated, requests are checked, time passes
NextCsrf ==
    \/ \E s \in Sesiones, t \in Tokens : generate_csrf_token(s, t)
    \/ \E s \in Sesiones, v \in TokensAjenos : otro_csrf_token(s, v)
    \/ \E s \in Sesiones, m \in Metodos,
          t \in Tokens \cup TokensAjenos \cup {None},
          b \in BOOLEAN, e \in BOOLEAN : csrf_protect(s, m, t, b, e)
    \/ TicCsrf

SpecCsrf == InitConteos /\ [][NextCsrf]_vars

SpecVisitas == InitConteos /\ [][NextVisitas]_vars

\* the three role variants exist, each with its own role
InitUsuarios ==
    /\ usuarios = [u \in Users |-> RolInicial[u]]
    /\ permisos = PermNames
    /\ roles_permisos = {}
    /\ usuarios_permisos = {}
    /\ consulta = SinConsulta
    /\ calculo = SinCalculo
    /\ equipo = EquipoInicial
    /\ conteos = {}
    /\ hoy = 1
    /\ sig_id = 1
    /\ peticion = [p \in Peticiones |-> Libre]
    /\ ultima = SinUltima
    /\ respuesta = SinRespuesta
    /\ visitas = SinVisitas
    /\ limitador = LimitadorInicial
    /\ csrf = CsrfInicial
    /\ filas = SinFilas

\* user creation, user edit and the role migration
NextUsuarios ==
    \/ \E n \in UsuariosNuevos, r \in RolesEnviados : usuarios_nuevo(n, r)
    \/ \E u \in Users \cup UsuariosNuevos, r \in RolesEnviados :
          usuarios_editar(u, r)
    \/ update_user_roles

SpecUsuarios == InitUsuarios /\ [][NextUsuarios]_vars

\* permission tables of the guard specification: any subset of two role
\* rows and two direct grants
InitGuardas ==
    /\ usuarios = RolInicial
    /\ permisos = PermNames
    /\ roles_permisos \in SUBSET {<<"admin", "crear_conteo">>,
                                  <<"tecnico", "crear_conteos">>}
    /\ usuarios_permisos \in SUBSET {<<"tec", "crear_conteo">>,
                                     <<"usr", "crear_conteos">>}
    /\ consulta = SinConsulta
    /\ calculo = SinCalculo
    /\ equipo = EquipoInicial
    /\ conteos = {}
    /\ hoy = 1
    /\ sig_id = 1
    /\ peticion = [p \in Peticiones |-> Libre]
    /\ ultima = SinUltima
    /\ respuesta = SinRespuesta
    /\ visitas = SinVisitas
    /\ limitador = LimitadorInicial
    /\ csrf = CsrfInicial
    /\ filas = SinFilas

\* requests from any caller to handlers behind each of the guards
NextGuardas ==
    \/ \E u \in Llamantes, roles \in ListasRoles, xhr \in BOOLEAN,
          con \in BOOLEAN, eu \in BOOLEAN :
          role_required(u, roles, xhr, con, eu)
    \/ \E u \in Llamantes, ps \in ListasPermisos, t \in BOOLEAN,
          xhr \in BOOLEAN, con \in BOOLEAN, eu \in BOOLEAN :
          permission_required(u, ps, t, xhr, con, eu)
    \/ \E u \in Llamantes, n \in PermNames, xhr \in BOOLEAN :
          permiso_requerido(u, n, xhr)
    \/ \E u \in Llamantes, n \in PermNames, xhr \in BOOLEAN :
          permiso_requerido_api(u, n, xhr)

SpecGuardas == InitGuardas /\ [][NextGuardas]_vars

----------------------------------------------------------------------------
(* Claims on the permission resolver (SpecPermisos) *)

\* C1: a superadmin holds every permission name, whatever the contents of
\* roles_permisos and usuarios_permisos and whenever the name entered the
\* catalog; every tiene_permiso call made for a superadmin returned True.
C1_SuperadminTieneTodo ==
    /\ \A u \in Users : is_superadmin(u) =>
          \A p \in PermNames : tiene_permiso(u, p)
    /\ (consulta.tipo = "tiene_permiso" /\ is_superadmin(consulta.usuario))
          => consulta.resultado

\* a superadmin was asked for a permission that is in the catalog (created
\* after the user) and granted to nobody, and the answer was True
C1_Witness ==
    /\ consulta.tipo = "tiene_permiso"
    /\ is_superadmin(consulta.usuario)
    /\ consulta.permisos[1] \in permisos
    /\ \A r \in Roles : <<r, consulta.permisos[1]>> \notin roles_permisos
    /\ \A u \in Users : <<u, consulta.permisos[1]>> \notin usuarios_permisos
    /\ consulta.resultado

\* C2: for a user below the top rank, tiene_permiso(u, P) holds exactly when
\* a direct grant (u, P) or a role row (u.rol, P) exists.
C2_PermisoSiiFila ==
    \A u \in Users : ~is_superadmin(u) =>
        \A p \in PermNames :
            tiene_permiso(u, p) <=>
                (\/ <<u, p>> \in usuarios_permisos
                 \/ <<usuarios[u], p>> \in roles_permisos)

\* a technician holds P by direct grant only and the resolver answered True,
\* while the other technician-irrelevant name is in neither table
C2_Witness ==
    /\ consulta.tipo = "tiene_permiso"
    /\ ~is_superadmin(consulta.usuario)
    /\ <<consulta.usuario, consulta.permisos[1]>> \in usuarios_permisos
    /\ <<usuarios[consulta.usuario], consulta.permisos[1]>> \notin roles_permisos
    /\ consulta.resultado
    /\ \E q \in PermNames : ~tiene_permiso(consulta.usuario, q)

\* C3: for a non-empty list of names, tiene_permisos with todos=True is the
\* conjunction of tiene_permiso over the names and with todos=False the
\* disjunction.
C3_TodosCualquiera ==
    \A u \in Users : \A ps \in ListasPermisos : ps # <<>> =>
        /\ tiene_permisos(u, ps, TRUE) <=>
              (\A n \in Rango(ps) : tiene_permiso(u, n))
        /\ tiene_permisos(u, ps, FALSE) <=>
              (\E n \in Rango(ps) : tiene_permiso(u, n))

\* a non-superadmin holding exactly one of two names was asked for both with
\* todos=True and was refused
C3_Witness ==
    /\ consulta.tipo = "tiene_permisos"
    /\ ~is_superadmin(consulta.usuario)
    /\ Len(consulta.permisos) = 2
    /\ tiene_permiso(consulta.usuario, consulta.permisos[1])
    /\ ~tiene_permiso(consulta.usuario, consulta.permisos[2])
    /\ consulta.todos
    /\ ~consulta.resultado
    /\ tiene_permisos(consulta.usuario, consulta.permisos, FALSE)

\* C4: tiene_permisos called with no names returns True when todos=True and
\* False when todos=False, for every user.
C4_VacioOriginal ==
    (consulta.tipo = "tiene_permisos" /\ consulta.permisos = <<>>)
        => (consulta.resultado <=> consulta.todos)

----------------------------------------------------------------------------
(* Claims on the delta engine (SpecDelta) *)

\* C6: for each counter type separately, calcular_diferencias yields
\* actual - anterior when actual >= anterior, actual when 0 < actual <
\* anterior, and 0 when actual = 0 < anterior; the value depends on the
\* counters of that type only.
C6_Diferencias ==
    calculo.tipo = "hecho" =>
        \A t \in TiposContador :
            LET a == calculo.actual[t]
                p == calculo.anterior[t]
            IN  calculo.resultado[t] =
                    (IF a >= p THEN a - p ELSE IF a > 0 THEN a ELSE 0)

\* one call in which the print counter was reset (99000 -> 50), the scan
\* counter advanced (5000 -> 5400) and the copy counter read 0 after 50
C6_Witness ==
    /\ calculo.tipo = "hecho"
    /\ calculo.anterior = [impresion |-> 99000, escaneo |-> 5000, copias |-> 50]
    /\ calculo.actual = [impresion |-> 50, escaneo |-> 5400, copias |-> 0]
    /\ calculo.resultado = [impresion |-> 50, escaneo |-> 400, copias |-> 0]

----------------------------------------------------------------------------
(* Claims on the submission paths *)

EnRango(c) == \A t \in TiposContador : c[t] >= 0 /\ c[t] <= MAX_CONTADOR

FueraDeRango(c) == ~EnRango(c)

FilasNuevas == conteos' \ conteos

\* C5: a submission attempted by a technician who holds crear_conteos
\* neither through the role nor directly is answered with an authorization
\* denial and does not go on to write a Conteo, also when the form posted
\* is one that an authorized user would have had accepted.
C5_TecnicoSinCrearConteos ==
    [][\A p \in Peticiones, u \in Users, c \in Formularios,
          af \in FormAnteriores, rm \in BOOLEAN, pr \in BOOLEAN,
          pv \in BOOLEAN :
          ( /\ NuevoConteoInicio(p, u, c, af, rm, pr, pv)
            /\ usuarios[u] = "tecnico"
            /\ ~tiene_permiso(u, "crear_conteos")
            /\ FormularioValido(c, af, rm, pr) )
          => ( /\ ultima'.resultado = "denegado"
               /\ peticion'[p].pc = "libre"
               /\ conteos' = conteos )]_vars

\* C7: a submission with a counter below 0 or above MAX_CONTADOR is rejected
\* and leaves conteos and equipo as they were; a submission whose counters
\* all lie in 0..MAX_CONTADOR, from an admitted user with an otherwise valid
\* form, is accepted for writing.
C7_RangoDeContadores ==
    [][\A p \in Peticiones, u \in Users, c \in Formularios,
          af \in FormAnteriores, rm \in BOOLEAN, pr \in BOOLEAN,
          pv \in BOOLEAN :
          NuevoConteoInicio(p, u, c, af, rm, pr, pv) =>
            /\ FueraDeRango(c) =>
                  /\ peticion'[p].pc = "libre"
                  /\ conteos' = conteos
                  /\ equipo' = equipo
            /\ ( /\ EnRango(c)
                 /\ permisos_requeridos(u, <<"crear_conteo">>)
                 /\ (is_admin(u) \/ pv)
                 /\ af = NULL
                 /\ (rm => pr)
                 /\ HayLugar )
               => peticion'[p].pc = "pendiente"]_vars

C10_Atomico ==
    [][\A p \in Peticiones :
          (peticion[p].pc = "pendiente" /\ peticion'[p].pc = "libre") =>
             \/ /\ conteos' = conteos
                /\ equipo' = equipo
             \/ /\ \E f \in FilasNuevas :
                      /\ f.actual = peticion[p].actual
                      /\ ContadoresEquipo(equipo') = f.actual
                      /\ equipo'.fecha = f.fecha_conteo
                /\ peticion[p].requiere =>
                      /\ equipo'.estado = "en_mantenimiento"
                      /\ equipo'.fecha_proximo_mantenimiento =
                            peticion[p].fecha_conteo + 30]_vars

\* a commit failed after an earlier submission with a maintenance need had
\* been stored: the stored row and the Equipo still agree, nothing of the
\* failed submission is present
C10_Witness ==
    /\ ultima = [handler |-> "nuevo_conteo", etapa |-> "commit",
                 resultado |-> "error"]
    /\ Cardinality(conteos) = 1
    /\ \A f \in conteos : ContadoresEquipo(equipo) = f.actual
    /\ equipo.estado = "en_mantenimiento"
    /\ \A p \in Peticiones : peticion[p].pc = "libre"

----------------------------------------------------------------------------
(* Claims on the route guards (SpecGuardas) and on obtener_permisos *)

\* C12: role_required runs the handler for an authenticated user only if no
\* role or 'any' was listed, or the user's role is listed, or a listed role
\* is in the registry and the user's rank is at least its rank; with the
\* list ('admin') exactly the users of rank >= 2 are admitted.
C12_SoloRolesListados ==
    LET r == respuesta.salida IN
    (r.guarda = "role_required" /\ r.usuario # Anonimo) =>
        /\ r.ejecutado =>
              \/ respuesta.config = <<>>
              \/ "any" \in Rango(respuesta.config)
              \/ \E rol \in Rango(respuesta.config) :
                    \/ usuarios[r.usuario] = rol
                    \/ /\ rol \in DOMAIN ROLES
                       /\ nivel(usuarios[r.usuario]) >= ROLES[rol]
        /\ respuesta.config = <<"admin">> =>
              (r.ejecutado <=> nivel(usuarios[r.usuario]) >= 2)

\* C13: an authenticated caller gets 200 from the handler when the guard
\* (role_required, permission_required) admits them and status 403, with
\* the handler not run, when it does not.
C13_Rechazo403 ==
    LET r == respuesta.salida IN
    (r.guarda \in {"role_required", "permission_required"}
        /\ r.usuario # Anonimo) =>
        IF r.ejecutado THEN r.estado = 200 ELSE r.estado = 403

\* C14: a caller without a session never reaches the handler behind any of
\* the four guards, whatever the guard lists: the page guards redirect to
\* auth.login, the API guard answers 401.
C14_AnonimoNoLlega ==
    LET r == respuesta.salida IN
    r.usuario = Anonimo =>
        /\ ~r.ejecutado
        /\ IF r.guarda = "permiso_requerido_api"
           THEN r.estado = 401 /\ r.cuerpo = "json"
           ELSE r.estado = 302 /\ r.destino = "auth.login"

\* an anonymous caller asked for a handler behind role_required('any') and
\* was redirected to the login page
C14_Witness ==
    /\ respuesta.salida.guarda = "role_required"
    /\ respuesta.salida.usuario = Anonimo
    /\ respuesta.config = <<"any">>
    /\ respuesta.salida.estado = 302
    /\ respuesta.salida.destino = "auth.login"
    /\ ~respuesta.salida.ejecutado

\* C15: permission_required admits an authenticated caller exactly when
\* tiene_permisos answers True for the same names and mode; a denied caller
\* gets a JSON body with status 403 when the request is an XMLHttpRequest
\* and a flash message with a redirect otherwise.
C15_DelegaYForma ==
    LET r == respuesta.salida IN
    (r.guarda = "permission_required" /\ r.usuario # Anonimo) =>
        /\ r.ejecutado <=>
              tiene_permisos(r.usuario, respuesta.config, respuesta.todos)
        /\ ~r.ejecutado =>
              IF r.xhr THEN r.estado = 403 /\ r.cuerpo = "json"
              ELSE r.estado = 302 /\ r.cuerpo = "flash"

\* C16: in every state obtener_permisos is the union of the names granted
\* directly to the user and the names granted to the user's role, and for
\* a superadmin the whole catalog; every call returns that set.
C16_UnionDePermisos ==
    [][LET esperado(u) ==
               IF usuarios[u] = "superadmin" THEN permisos
               ELSE {n \in PermNames :
                       \/ <<u, n>> \in usuarios_permisos
                       \/ <<usuarios[u], n>> \in roles_permisos}
       IN  /\ \A u \in Users : obtener_permisos(u) = esperado(u)
           /\ (consulta' # consulta /\ consulta'.tipo = "obtener_permisos")
                 => consulta'.resultado = esperado(consulta'.usuario)]_vars

\* a non-superadmin holding one name by direct grant and another through
\* the role was answered with both
C16_Witness ==
    /\ consulta.tipo = "obtener_permisos"
    /\ ~is_superadmin(consulta.usuario)
    /\ \E n \in PermNames, m \in PermNames :
          /\ n # m
          /\ <<consulta.usuario, n>> \in usuarios_permisos
          /\ <<usuarios[consulta.usuario], n>> \notin roles_permisos
          /\ <<usuarios[consulta.usuario], m>> \in roles_permisos
          /\ <<consulta.usuario, m>> \notin usuarios_permisos
          /\ consulta.resultado = {n, m}

\* C17: the registry ranks superadmin 3, admin 2, tecnico 1 and every other
\* role 0; is_admin is rank >= 2 and is_tecnico rank >= 1, so is_admin
\* implies is_tecnico and a technician is not an admin.  The dashboard a
\* denied caller is sent to follows the same ranks.
C17_Jerarquia ==
    /\ ROLES["superadmin"] = 3 /\ ROLES["admin"] = 2 /\ ROLES["tecnico"] = 1
    /\ \A u \in DOMAIN usuarios :
          LET rango == IF usuarios[u] = "superadmin" THEN 3
                       ELSE IF usuarios[u] = "admin" THEN 2
                       ELSE IF usuarios[u] = "tecnico" THEN 1 ELSE 0
          IN  /\ nivel(usuarios[u]) = rango
              /\ is_admin(u) <=> rango >= 2
              /\ is_tecnico(u) <=> rango >= 1
              /\ is_admin(u) => is_tecnico(u)
              /\ usuarios[u] = "tecnico" => ~is_admin(u)
    /\ respuesta.salida.destino = "admin.dashboard" =>
          usuarios[respuesta.salida.usuario] \in {"admin", "superadmin"}
    /\ respuesta.salida.destino = "tecnico.dashboard" =>
          usuarios[respuesta.salida.usuario] = "tecnico"

\* a technician was denied by role_required('admin') and sent to the
\* technician dashboard, an admin denied by permission_required is sent to
\* the admin dashboard in another behaviour
C17_Witness ==
    /\ respuesta.salida.guarda = "role_required"
    /\ respuesta.config = <<"admin">>
    /\ respuesta.salida.usuario \in DOMAIN usuarios
    /\ usuarios[respuesta.salida.usuario] = "tecnico"
    /\ ~respuesta.salida.ejecutado
    /\ respuesta.salida.destino = "tecnico.dashboard"

----------------------------------------------------------------------------
(* Claims on resets, persisted deltas and unusual jumps (SpecConteos) *)

----------------------------------------------------------------------------
(* Claims on stored readings and the equipment (SpecEdicion, SpecConteos) *)

----------------------------------------------------------------------------
(* Claims on visits (SpecVisitas) *)

\* the order scheduled -> in-progress -> completed or cancelled
PasoDeVisita ==
    {<<"programada", "en_proceso">>, <<"programada", "cancelada">>,
     <<"en_proceso", "completada">>, <<"en_proceso", "cancelada">>}

----------------------------------------------------------------------------
(* Claims on user roles (SpecUsuarios) *)

\* C23: the role of every user is one of the registered role identifiers,
\* the keys of Usuario.ROLES.
C23_RolRegistrado ==
    \A u \in DOMAIN usuarios : usuarios[u] \in Roles

----------------------------------------------------------------------------
(* Claims on grants (SpecConcesiones) *)

\* the grant recorded in c names a pair whose row is in the tables t
YaConcedido(c, t) ==
    \E n \in c.nombres :
        \/ c.tipo = "asignar_permiso_rol"
              /\ <<c.destino, n>> \in BagToSet(t.rol)
        \/ c.tipo = "asignar_permiso_usuario"
              /\ <<c.destino, n>> \in BagToSet(t.usuario)
        \/ c.tipo = "agregar_permiso"
              /\ <<usuarios[c.destino], n>> \in BagToSet(t.rol)

C27_DefectosMaterializados ==
    [][(consulta' # consulta /\ consulta'.tipo = "__init__") =>
          \A p \in consulta'.nombres :
              <<consulta'.resultado, p>> \in BagToSet(filas'.rol)]_vars

\* the window length a part of the configuration asks for: the seconds of
\* the period word it ends with
VentanaPedida(part) == SegundosDe(part.period[Len(part.period)])

\* requests of identifier i let through during window w of s seconds
AdmitidasEn(i, w, s) ==
    LET segs == {t \in 0..limitador.reloj : t \div s = w}
        RECURSIVE Suma(_)
        Suma(S) == IF S = {} THEN 0
                   ELSE LET t == CHOOSE x \in S : TRUE
                        IN CopiesIn(<<i, t>>, limitador.admitidas)
                           + Suma(S \ {t})
    IN Suma(segs)

\* C29: for each identifier and each configured limit (count per window of
\* N seconds), at most count requests are let through within one window.
C29_LimitePorVentana ==
    \A j \in 1..Len(limitador.config) :
       LET part == limitador.config[j]
           s == VentanaPedida(part)
       IN \A i \in Identificadores, t \in 0..limitador.reloj :
             AdmitidasEn(i, t \div s, s) <= part.count

\* the same bound for the limits that parse_rate_limit_config keeps
LimiteAnalizadoRespetado ==
    LET limits == parse_rate_limit_config(limitador.config)
    IN \A j \in 1..Len(limits) :
         \A i \in Identificadores, t \in 0..limitador.reloj :
            AdmitidasEn(i, t \div limits[j].seconds, limits[j].seconds)
               <= limits[j].count

\* the session of a checked request holds, within the time limit, a token
\* made by generate_csrf_token, and the request carries that token
TokenPropio(u) ==
    LET ses == csrf.sessions[u.session]
    IN /\ "_csrf_token" \in ses.claves
       /\ u.token = ses._csrf_token[1]
       /\ csrf.reloj - ses._csrf_token_timestamp <= WTF_CSRF_TIME_LIMIT

\* C30: a state-changing request that carries the token generate_csrf_token
\* returned for its own session, within the time limit, passes
\* _csrf_protect; one with a missing or different token (on an endpoint
\* that is not exempt, without bearer authentication) gets 403; a request
\* with a safe method is never rejected.
C30_TokenPropioPasa ==
    [][(csrf' # csrf /\ csrf'.ultima.op = "_csrf_protect") =>
         LET u == csrf'.ultima
         IN /\ u.method \in MetodosSeguros => u.resultado = "pasa"
            /\ (u.method \notin MetodosSeguros /\ TokenPropio(u))
                  => u.resultado = "pasa"
            /\ (/\ u.method \notin MetodosSeguros
                /\ ~u.bearer /\ ~u.exenta
                /\ ~TokenPropio(u)
                /\ u.token \notin TokensAjenos)
                  => u.resultado = "403"]_vars

====
